---- MODULE Spec2Model ----
(***************************************************************************)
(* Progressive memory game (src/memory_levels.py): a single-threaded,      *)
(* event-driven state machine.  Pointer clicks (tap), the one-shot         *)
(* mismatch-hide timer (hide_pending), the one-shot level-advance timer    *)
(* (advance_after_delay) and the recurring render tick (draw) all run to   *)
(* completion on one event queue.                                          *)
(*                                                                         *)
(* The program's globals are gathered in one record G; every handler is an *)
(* operator from such a record to the record it leaves behind, and every   *)
(* action installs the result of one handler.  Timers are kept as the      *)
(* callbacks that ontimer() has queued and that have not fired yet; time   *)
(* itself is not modelled, so a queued callback may fire at any moment.    *)
(***************************************************************************)
EXTENDS Integers, Sequences, FiniteSets

VARIABLES level_idx, COLS, ROWS, N, TILE, LEFT, BOTTOM, tiles, hide,
          move_count, level_results, state, timers,
          last, clicks, clean, probe

gvars == <<level_idx, COLS, ROWS, N, TILE, LEFT, BOTTOM, tiles, hide,
           move_count, level_results, state, timers>>
vars == <<level_idx, COLS, ROWS, N, TILE, LEFT, BOTTOM, tiles, hide,
          move_count, level_results, state, timers, last, clicks, clean,
          probe>>

(***************************************************************************)
(* Bounds of the model.                                                    *)
(***************************************************************************)
\* number of outcomes of shuffle() that setup_level may draw
MaxShuffles == 2
\* a session plays the leading levels of LEVELS whose boards have at most
\* MaxTile tiles, and clicks are drawn on boards of at most MaxTile tiles
MaxTile == 12
\* accepted clicks of a level that neither mark nor reveal a tile (a repeated
\* click on the marked tile, the two clicks of a mismatch) are drawn at most
\* MaxExtra times per level, which caps move_count at N + MaxExtra
MaxExtra == 2

(***************************************************************************)
(* Program constants.                                                      *)
(***************************************************************************)
None == -1
WIN_W == 800
WIN_H == 600

\* (cols, rows) of every level; the background gif plays no part
LEVELS == << <<2, 2>>, <<3, 4>>, <<4, 4>>, <<5, 4>>, <<6, 6>>, <<8, 8>>, <<10, 10>> >>

Min(a, b) == IF a < b THEN a ELSE b

\* len(LEVELS) of the session: the leading levels of at most MaxTile tiles
LenLevels ==
    Cardinality({k \in 1 .. Len(LEVELS) :
                    \A j \in 1 .. k : LEVELS[j][1] * LEVELS[j][2] <= MaxTile})

(***************************************************************************)
(* The globals as one record.                                              *)
(***************************************************************************)
G == [level_idx |-> level_idx, COLS |-> COLS, ROWS |-> ROWS, N |-> N,
      TILE |-> TILE, LEFT |-> LEFT, BOTTOM |-> BOTTOM,
      tiles |-> tiles, hide |-> hide, move_count |-> move_count,
      level_results |-> level_results, state |-> state, timers |-> timers]

Install(g) ==
    /\ level_idx' = g.level_idx
    /\ COLS' = g.COLS
    /\ ROWS' = g.ROWS
    /\ N' = g.N
    /\ TILE' = g.TILE
    /\ LEFT' = g.LEFT
    /\ BOTTOM' = g.BOTTOM
    /\ tiles' = g.tiles
    /\ hide' = g.hide
    /\ move_count' = g.move_count
    /\ level_results' = g.level_results
    /\ state' = g.state
    /\ timers' = g.timers

Holds(g) ==
    /\ level_idx = g.level_idx
    /\ COLS = g.COLS
    /\ ROWS = g.ROWS
    /\ N = g.N
    /\ TILE = g.TILE
    /\ LEFT = g.LEFT
    /\ BOTTOM = g.BOTTOM
    /\ tiles = g.tiles
    /\ hide = g.hide
    /\ move_count = g.move_count
    /\ level_results = g.level_results
    /\ state = g.state
    /\ timers = g.timers

\* module-level values of the globals, before the first setup_level
Blank ==
    [level_idx |-> 0, COLS |-> 0, ROWS |-> 0, N |-> 0,
     TILE |-> 0, LEFT |-> 0, BOTTOM |-> 0,
     tiles |-> <<>>, hide |-> <<>>, move_count |-> 0,
     level_results |-> <<>>,
     state |-> [mark |-> None, pending_hide |-> <<>>, advancing |-> FALSE,
                finished |-> FALSE, recorded |-> FALSE],
     timers |-> [hide_pending |-> <<>>, advance_after_delay |-> 0, draw |-> 0]]

(***************************************************************************)
(* Grid geometry.                                                          *)
(***************************************************************************)
size_grid(g, cols, rows) ==
    LET tile == Min(WIN_W \div cols, WIN_H \div rows)
        board_w == cols * tile
        board_h == rows * tile
    IN  [g EXCEPT !.TILE = tile,
                  !.LEFT = (-board_w) \div 2,
                  !.BOTTOM = (-board_h) \div 2]

\* index_from_xy with the row scaled by ROWS instead of COLS
index_from_xy_RowStride(g, x, y) ==
    LET col == (x - g.LEFT) \div g.TILE
        row == (y - g.BOTTOM) \div g.TILE
    IN  IF 0 <= col /\ col < g.COLS /\ 0 <= row /\ row < g.ROWS
        THEN row * g.ROWS + col
        ELSE None

index_from_xy(g, x, y) ==
    LET col == (x - g.LEFT) \div g.TILE
        row == (y - g.BOTTOM) \div g.TILE
    IN  IF 0 <= col /\ col < g.COLS /\ 0 <= row /\ row < g.ROWS
        THEN row * g.COLS + col
        ELSE None

xy_from_index(g, i) ==
    LET col == i % g.COLS
        row == i \div g.COLS
    IN  <<g.LEFT + col * g.TILE, g.BOTTOM + row * g.TILE>>

(***************************************************************************)
(* Board.                                                                  *)
(***************************************************************************)
\* list(range(n // 2 + 1)) cut to n values: the last symbol comes up short
BaseTiles_OneSymbolMore(n) ==
    [i \in 0 .. (2 * (n \div 2) - 1) |-> i % (n \div 2 + 1)]

\* list(range(n // 2)) * 2, indexed from 0
BaseTiles(n) == [i \in 0 .. (2 * (n \div 2) - 1) |-> i % (n \div 2)]

\* outcome s of shuffle(): the list with its first place kept and the rest
\* rotated left by s places
Shuffled(t, s) ==
    LET len == Cardinality(DOMAIN t)
    IN  IF len < 2 THEN t
        ELSE [i \in DOMAIN t |->
                 IF i = 0 THEN t[0] ELSE t[1 + ((i - 1 + s) % (len - 1))]]

\* setup_level without the reset of move_count
setup_level_KeepMoves(g, idx, s) ==
    LET cols == LEVELS[idx + 1][1]
        rows == LEVELS[idx + 1][2]
        n == cols * rows
        g1 == [g EXCEPT !.state.advancing = FALSE,
                        !.state.pending_hide = <<>>,
                        !.state.mark = None,
                        !.state.recorded = FALSE,
                        !.COLS = cols, !.ROWS = rows, !.N = n]
        g2 == size_grid(g1, cols, rows)
    IN  [g2 EXCEPT !.tiles = Shuffled(BaseTiles(n), s),
                   !.hide = [i \in 0 .. n - 1 |-> TRUE]]

\* setup_level without the reset of recorded
setup_level_KeepRecorded(g, idx, s) ==
    LET cols == LEVELS[idx + 1][1]
        rows == LEVELS[idx + 1][2]
        n == cols * rows
        g1 == [g EXCEPT !.state.advancing = FALSE,
                        !.state.pending_hide = <<>>,
                        !.state.mark = None,
                        !.COLS = cols, !.ROWS = rows, !.N = n,
                        !.move_count = 0]
        g2 == size_grid(g1, cols, rows)
    IN  [g2 EXCEPT !.tiles = Shuffled(BaseTiles(n), s),
                   !.hide = [i \in 0 .. n - 1 |-> TRUE]]

setup_level(g, idx, s) ==
    LET cols == LEVELS[idx + 1][1]
        rows == LEVELS[idx + 1][2]
        n == cols * rows
        g1 == [g EXCEPT !.state.advancing = FALSE,
                        !.state.pending_hide = <<>>,
                        !.state.mark = None,
                        !.state.recorded = FALSE,
                        !.COLS = cols, !.ROWS = rows, !.N = n,
                        !.move_count = 0]
        g2 == size_grid(g1, cols, rows)
    IN  [g2 EXCEPT !.tiles = Shuffled(BaseTiles(n), s),
                   !.hide = [i \in 0 .. n - 1 |-> TRUE]]

all_revealed(g) == \A i \in DOMAIN g.hide : ~g.hide[i]

(***************************************************************************)
(* Handlers.                                                               *)
(***************************************************************************)
\* tap that takes clicks while a mismatch is pending
tap_NoPendingGuard(g, x, y) ==
    IF g.state.finished \/ g.state.advancing
    THEN g
    ELSE LET spot == index_from_xy(g, x, y)
         IN  IF spot = None \/ ~g.hide[spot]
             THEN g
             ELSE LET g1 == [g EXCEPT !.move_count = @ + 1]
                      mark == g.state.mark
                  IN  IF mark = None \/ mark = spot
                      THEN [g1 EXCEPT !.state.mark = spot]
                      ELSE IF g.tiles[mark] = g.tiles[spot]
                           THEN [g1 EXCEPT !.hide = [@ EXCEPT ![spot] = FALSE,
                                                              ![mark] = FALSE],
                                           !.state.mark = None]
                           ELSE [g1 EXCEPT !.state.pending_hide = <<mark, spot>>,
                                           !.state.mark = None,
                                           !.timers.hide_pending =
                                               Append(@, <<mark, spot>>)]

\* tap that uncovers the pair of a mismatch until the timer covers it again
tap_RevealOnMismatch(g, x, y) ==
    IF g.state.finished \/ g.state.advancing \/ g.state.pending_hide # <<>>
    THEN g
    ELSE LET spot == index_from_xy(g, x, y)
         IN  IF spot = None \/ ~g.hide[spot]
             THEN g
             ELSE LET g1 == [g EXCEPT !.move_count = @ + 1]
                      mark == g.state.mark
                  IN  IF mark = None \/ mark = spot
                      THEN [g1 EXCEPT !.state.mark = spot]
                      ELSE IF g.tiles[mark] = g.tiles[spot]
                           THEN [g1 EXCEPT !.hide = [@ EXCEPT ![spot] = FALSE,
                                                              ![mark] = FALSE],
                                           !.state.mark = None]
                           ELSE [g1 EXCEPT !.hide = [@ EXCEPT ![spot] = FALSE,
                                                              ![mark] = FALSE],
                                           !.state.pending_hide = <<mark, spot>>,
                                           !.state.mark = None,
                                           !.timers.hide_pending =
                                               Append(@, <<mark, spot>>)]

\* tap with the mark left in place on a mismatching second click
tap_KeepMark(g, x, y) ==
    IF g.state.finished \/ g.state.advancing \/ g.state.pending_hide # <<>>
    THEN g
    ELSE LET spot == index_from_xy(g, x, y)
         IN  IF spot = None \/ ~g.hide[spot]
             THEN g
             ELSE LET g1 == [g EXCEPT !.move_count = @ + 1]
                      mark == g.state.mark
                  IN  IF mark = None \/ mark = spot
                      THEN [g1 EXCEPT !.state.mark = spot]
                      ELSE IF g.tiles[mark] = g.tiles[spot]
                           THEN [g1 EXCEPT !.hide = [@ EXCEPT ![spot] = FALSE,
                                                              ![mark] = FALSE],
                                           !.state.mark = None]
                           ELSE [g1 EXCEPT !.state.pending_hide = <<mark, spot>>,
                                           !.timers.hide_pending =
                                               Append(@, <<mark, spot>>)]

\* tap with the move left uncounted on a matching second click
tap_NoCountOnMatch(g, x, y) ==
    IF g.state.finished \/ g.state.advancing \/ g.state.pending_hide # <<>>
    THEN g
    ELSE LET spot == index_from_xy(g, x, y)
         IN  IF spot = None \/ ~g.hide[spot]
             THEN g
             ELSE LET g1 == [g EXCEPT !.move_count = @ + 1]
                      mark == g.state.mark
                  IN  IF mark = None \/ mark = spot
                      THEN [g1 EXCEPT !.state.mark = spot]
                      ELSE IF g.tiles[mark] = g.tiles[spot]
                           THEN [g EXCEPT !.hide = [@ EXCEPT ![spot] = FALSE,
                                                             ![mark] = FALSE],
                                          !.state.mark = None]
                           ELSE [g1 EXCEPT !.state.pending_hide = <<mark, spot>>,
                                           !.state.mark = None,
                                           !.timers.hide_pending =
                                               Append(@, <<mark, spot>>)]

\* tap with the move counted before the tile is looked up
tap_CountBeforeLookup(g, x, y) ==
    IF g.state.finished \/ g.state.advancing \/ g.state.pending_hide # <<>>
    THEN g
    ELSE LET spot == index_from_xy(g, x, y)
             g1 == [g EXCEPT !.move_count = @ + 1]
         IN  IF spot = None \/ ~g.hide[spot]
             THEN g1
             ELSE LET mark == g.state.mark
                  IN  IF mark = None \/ mark = spot
                      THEN [g1 EXCEPT !.state.mark = spot]
                      ELSE IF g.tiles[mark] = g.tiles[spot]
                           THEN [g1 EXCEPT !.hide = [@ EXCEPT ![spot] = FALSE,
                                                              ![mark] = FALSE],
                                           !.state.mark = None]
                           ELSE [g1 EXCEPT !.state.pending_hide = <<mark, spot>>,
                                           !.state.mark = None,
                                           !.timers.hide_pending =
                                               Append(@, <<mark, spot>>)]

\* tap with a repeated click on the marked tile taking the mark off again
tap_ToggleMark(g, x, y) ==
    IF g.state.finished \/ g.state.advancing \/ g.state.pending_hide # <<>>
    THEN g
    ELSE LET spot == index_from_xy(g, x, y)
         IN  IF spot = None \/ ~g.hide[spot]
             THEN g
             ELSE LET g1 == [g EXCEPT !.move_count = @ + 1]
                      mark == g.state.mark
                  IN  IF mark = None
                      THEN [g1 EXCEPT !.state.mark = spot]
                      ELSE IF mark = spot
                      THEN [g1 EXCEPT !.state.mark = None]
                      ELSE IF g.tiles[mark] = g.tiles[spot]
                           THEN [g1 EXCEPT !.hide = [@ EXCEPT ![spot] = FALSE,
                                                              ![mark] = FALSE],
                                           !.state.mark = None]
                           ELSE [g1 EXCEPT !.state.pending_hide = <<mark, spot>>,
                                           !.state.mark = None,
                                           !.timers.hide_pending =
                                               Append(@, <<mark, spot>>)]

tap(g, x, y) ==
    IF g.state.finished \/ g.state.advancing \/ g.state.pending_hide # <<>>
    THEN g
    ELSE LET spot == index_from_xy(g, x, y)
         IN  IF spot = None \/ ~g.hide[spot]
             THEN g
             ELSE LET g1 == [g EXCEPT !.move_count = @ + 1]
                      mark == g.state.mark
                  IN  IF mark = None \/ mark = spot
                      THEN [g1 EXCEPT !.state.mark = spot]
                      ELSE IF g.tiles[mark] = g.tiles[spot]
                           THEN [g1 EXCEPT !.hide = [@ EXCEPT ![spot] = FALSE,
                                                              ![mark] = FALSE],
                                           !.state.mark = None]
                           ELSE [g1 EXCEPT !.state.pending_hide = <<mark, spot>>,
                                           !.state.mark = None,
                                           !.timers.hide_pending =
                                               Append(@, <<mark, spot>>)]

\* hide_pending that covers the pair again but leaves pending_hide set
hide_pending_KeepPending(g) ==
    IF g.state.pending_hide # <<>>
    THEN LET a == g.state.pending_hide[1]
             b == g.state.pending_hide[2]
         IN  [g EXCEPT !.hide = [@ EXCEPT ![a] = TRUE, ![b] = TRUE]]
    ELSE g

hide_pending(g) ==
    IF g.state.pending_hide # <<>>
    THEN LET a == g.state.pending_hide[1]
             b == g.state.pending_hide[2]
         IN  [g EXCEPT !.hide = [@ EXCEPT ![a] = TRUE, ![b] = TRUE],
                       !.state.pending_hide = <<>>]
    ELSE g

\* advance_after_delay with the bound test off by one
advance_after_delay_OffByOne(g, s) ==
    LET g1 == [g EXCEPT !.level_idx = @ + 1]
    IN  IF g1.level_idx <= LenLevels
        THEN setup_level(g1, g1.level_idx, s)
        ELSE [g1 EXCEPT !.state.finished = TRUE]

advance_after_delay(g, s) ==
    LET g1 == [g EXCEPT !.level_idx = @ + 1]
    IN  IF g1.level_idx < LenLevels
        THEN setup_level(g1, g1.level_idx, s)
        ELSE [g1 EXCEPT !.state.finished = TRUE]

\* record_level_if_needed without the recorded guard
record_level_EveryTick(g) ==
    [g EXCEPT !.level_results =
                  Append(@, [level |-> g.level_idx + 1,
                             cols |-> LEVELS[g.level_idx + 1][1],
                             rows |-> LEVELS[g.level_idx + 1][2],
                             moves |-> g.move_count]),
              !.state.recorded = TRUE]

record_level_if_needed(g) ==
    IF ~g.state.recorded
    THEN [g EXCEPT !.level_results =
                       Append(@, [level |-> g.level_idx + 1,
                                  cols |-> LEVELS[g.level_idx + 1][1],
                                  rows |-> LEVELS[g.level_idx + 1][2],
                                  moves |-> g.move_count]),
                   !.state.recorded = TRUE]
    ELSE g

\* draw that starts the pause on every tick of a complete board
draw_AlwaysSchedule(g) ==
    IF g.state.finished
    THEN g
    ELSE LET g1 == IF all_revealed(g) /\ g.state.pending_hide = <<>>
                   THEN LET r == record_level_if_needed(g)
                        IN  [r EXCEPT !.state.advancing = TRUE,
                                      !.timers.advance_after_delay = @ + 1]
                   ELSE g
         IN  [g1 EXCEPT !.timers.draw = @ + 1]

\* draw that starts the pause without recording the level
draw_NoRecord(g) ==
    IF g.state.finished
    THEN g
    ELSE LET g1 == IF all_revealed(g) /\ g.state.pending_hide = <<>>
                   THEN IF ~g.state.advancing
                        THEN [g EXCEPT !.state.advancing = TRUE,
                                       !.timers.advance_after_delay = @ + 1]
                        ELSE g
                   ELSE g
         IN  [g1 EXCEPT !.timers.draw = @ + 1]

\* draw that does not queue the next tick
draw_NoNextTick(g) ==
    IF g.state.finished
    THEN g
    ELSE IF all_revealed(g) /\ g.state.pending_hide = <<>>
         THEN LET r == record_level_if_needed(g)
              IN  IF ~r.state.advancing
                  THEN [r EXCEPT !.state.advancing = TRUE,
                                 !.timers.advance_after_delay = @ + 1]
                  ELSE r
         ELSE g

\* draw without the all_revealed test
draw_NoRevealTest(g) ==
    IF g.state.finished
    THEN g
    ELSE LET g1 == IF g.state.pending_hide = <<>>
                   THEN LET r == record_level_if_needed(g)
                        IN  IF ~r.state.advancing
                            THEN [r EXCEPT !.state.advancing = TRUE,
                                           !.timers.advance_after_delay = @ + 1]
                            ELSE r
                   ELSE g
         IN  [g1 EXCEPT !.timers.draw = @ + 1]

draw(g) ==
    IF g.state.finished
    THEN g
    ELSE LET g1 == IF all_revealed(g) /\ g.state.pending_hide = <<>>
                   THEN LET r == record_level_if_needed(g)
                        IN  IF ~r.state.advancing
                            THEN [r EXCEPT !.state.advancing = TRUE,
                                           !.timers.advance_after_delay = @ + 1]
                            ELSE r
                   ELSE g
         IN  [g1 EXCEPT !.timers.draw = @ + 1]

(***************************************************************************)
(* Inputs.                                                                 *)
(***************************************************************************)
ShuffleChoices == 0 .. MaxShuffles - 1

\* the lower-left corner of every tile, the innermost upper-right point of
\* the last tile, and two points just off the board
Points(g) ==
    { xy_from_index(g, i) : i \in 0 .. g.N - 1 }
    \cup { <<g.LEFT + g.COLS * g.TILE - 1, g.BOTTOM + g.ROWS * g.TILE - 1>>,
           <<g.LEFT - 1, g.BOTTOM>>,
           <<g.LEFT, g.BOTTOM + g.ROWS * g.TILE>> }

\* accepted clicks of the level so far that neither marked nor revealed
Wasted(g) ==
    g.move_count - Cardinality({i \in DOMAIN g.hide : ~g.hide[i]})
                 - (IF g.state.mark # None THEN 1 ELSE 0)

\* the point lies in the square of tile i
OnTile(g, i, x, y) ==
    LET c == i % g.COLS
        r == i \div g.COLS
    IN  /\ g.LEFT + c * g.TILE <= x /\ x < g.LEFT + (c + 1) * g.TILE
        /\ g.BOTTOM + r * g.TILE <= y /\ y < g.BOTTOM + (r + 1) * g.TILE

\* an accepted click: finished, advancing and pending_hide unset, and the
\* point lands on a tile whose hide flag is true
Accepted(g, x, y) ==
    /\ ~g.state.finished
    /\ ~g.state.advancing
    /\ g.state.pending_hide = <<>>
    /\ \E i \in 0 .. g.N - 1 : OnTile(g, i, x, y) /\ g.hide[i]

\* the tile whose square holds the point
TileAt(g, x, y) == CHOOSE i \in 0 .. g.N - 1 : OnTile(g, i, x, y)

\* an accepted second click on a tile other than the marked one, of another value
Mismatching(g, x, y) ==
    /\ Accepted(g, x, y)
    /\ g.state.mark # None
    /\ TileAt(g, x, y) # g.state.mark
    /\ g.tiles[TileAt(g, x, y)] # g.tiles[g.state.mark]

\* an accepted click on the tile that is already marked
Repeating(g, x, y) ==
    /\ Accepted(g, x, y)
    /\ g.state.mark # None
    /\ TileAt(g, x, y) = g.state.mark

(***************************************************************************)
(* Initial states.                                                         *)
(***************************************************************************)
\* after the module has run setup_level(level_idx) and the first draw()
Init ==
    \E s \in ShuffleChoices :
        /\ Holds(draw(setup_level(Blank, 0, s)))
        /\ last = [op |-> "draw", acc |-> FALSE]
        /\ clicks = <<0>>
        /\ clean = TRUE
        /\ probe = <<>>

\* the module before its run section: no level set up, tap not yet bound
LevelInit ==
    /\ Holds(Blank)
    /\ last = [op |-> "boot", acc |-> FALSE]
    /\ clicks = <<0>>
    /\ clean = TRUE
    /\ probe = <<>>

(***************************************************************************)
(* Actions.                                                                *)
(***************************************************************************)
Tap ==
    /\ last.op # "boot"
    /\ probe = <<>>
    /\ N <= MaxTile
    /\ \E p \in Points(G) :
        LET g1 == tap(G, p[1], p[2])
            acc == Accepted(G, p[1], p[2])
        IN  /\ Wasted(g1) <= MaxExtra
            /\ Install(g1)
            /\ last' = [op |-> "tap", acc |-> acc]
            /\ clicks' = IF acc THEN [clicks EXCEPT ![Len(clicks)] = @ + 1]
                         ELSE clicks
            /\ clean' = (clean /\ ~Mismatching(G, p[1], p[2])
                               /\ ~Repeating(G, p[1], p[2]))
    /\ UNCHANGED probe

HidePendingFire ==
    /\ timers.hide_pending # <<>>
    /\ Install(hide_pending([G EXCEPT !.timers.hide_pending = Tail(@)]))
    /\ last' = [op |-> "hide_pending", acc |-> FALSE]
    /\ UNCHANGED <<clicks, clean, probe>>

AdvanceFire ==
    /\ timers.advance_after_delay > 0
    /\ \E s \in ShuffleChoices :
        Install(advance_after_delay(
                    [G EXCEPT !.timers.advance_after_delay = @ - 1], s))
    /\ last' = [op |-> "advance_after_delay", acc |-> FALSE]
    /\ clicks' = IF level_idx + 1 < LenLevels THEN Append(clicks, 0) ELSE clicks
    /\ clean' = (IF level_idx + 1 < LenLevels THEN TRUE ELSE clean)
    /\ UNCHANGED probe

DrawFire ==
    /\ timers.draw > 0
    /\ Install(draw([G EXCEPT !.timers.draw = @ - 1]))
    /\ last' = [op |-> "draw", acc |-> FALSE]
    /\ UNCHANGED <<clicks, clean, probe>>

\* level_idx = idx; setup_level(level_idx), for any row of the table
SetupAny ==
    /\ last.op = "boot"
    /\ \E idx \in 0 .. Len(LEVELS) - 1, s \in ShuffleChoices :
        Install(setup_level([G EXCEPT !.level_idx = idx], idx, s))
    /\ last' = [op |-> "setup_level", acc |-> FALSE]
    /\ UNCHANGED <<clicks, clean, probe>>

\* index_from_xy(*xy_from_index(i)) on the fresh board
Probe ==
    /\ last.op = "setup_level"
    /\ \E i \in 0 .. N - 1 :
        LET xy == xy_from_index(G, i)
        IN  probe' = <<i, xy, index_from_xy(G, xy[1], xy[2])>>
    /\ last' = [op |-> "probe", acc |-> FALSE]
    /\ UNCHANGED <<gvars, clicks, clean>>

Next == Tap \/ HidePendingFire \/ AdvanceFire \/ DrawFire

Spec == Init /\ [][Next]_vars

\* every level of the table set up on its own, probed and (small boards)
\* clicked; no render tick, so no level change
LevelNext == SetupAny \/ Probe \/ Tap \/ HidePendingFire

LevelSpec == LevelInit /\ [][LevelNext]_vars

\* the event loop runs every hide_pending that ontimer() has queued
HideFairSpec == Init /\ [][Next]_vars /\ WF_vars(HidePendingFire)

\* the event loop runs every render tick and every advance_after_delay that
\* ontimer() has queued
TickFairSpec ==
    /\ Init /\ [][Next]_vars
    /\ WF_vars(DrawFire)
    /\ WF_vars(AdvanceFire)

\* the event loop runs every callback that ontimer() has queued
FairSpec ==
    /\ Init /\ [][Next]_vars
    /\ WF_vars(HidePendingFire)
    /\ WF_vars(AdvanceFire)
    /\ WF_vars(DrawFire)

(***************************************************************************)
(* Properties.                                                             *)
(***************************************************************************)
Revealed(g) == {i \in DOMAIN g.hide : ~g.hide[i]}

\* C1: every accepted click (finished, advancing and pending_hide unset, on
\* a tile whose hide flag is true) raises move_count by exactly 1, be it a
\* first click, a matching or a mismatching second click.
C1_AcceptedClickCountsOne ==
    [][(last'.op = "tap" /\ last'.acc) => move_count' = move_count + 1]_vars

\* a mismatching second click has just been accepted as the fourth move,
\* after a first click and a matching second click
C1_Witness ==
    /\ last = [op |-> "tap", acc |-> TRUE]
    /\ state.pending_hide # <<>>
    /\ Revealed(G) # {}
    /\ move_count = 4

\* C2: an ignored click (finished, advancing or pending_hide set, no tile
\* under the point, or the tile already revealed) changes no game state and
\* schedules no timer.
C2_IgnoredClickChangesNothing ==
    [][(last'.op = "tap" /\ ~last'.acc) => gvars' = gvars]_vars

\* a click has just been ignored while a mismatch was pending
C2_Witness ==
    /\ last = [op |-> "tap", acc |-> FALSE]
    /\ state.pending_hide # <<>>
    /\ move_count = 2

\* the state two clicks on tile i, with nothing in between, lead to
TwoClicks(g, i) ==
    LET p == xy_from_index(g, i)
        g1 == tap(g, p[1], p[2])
    IN  tap(g1, p[1], p[2])

DoubleClickPost(g, i) ==
    LET g2 == TwoClicks(g, i)
    IN  /\ g2.state.mark = i
        /\ g2.move_count = g.move_count + 2
        /\ g2.hide = g.hide
        /\ g2.state.pending_hide = <<>>
        /\ g2.timers = g.timers

\* C3 as stated: two clicks in a row on any hidden tile leave mark on that
\* tile, raise move_count by 2, change no hide flag, set no pending_hide and
\* schedule no timer.
C3_Original ==
    last.op # "boot" =>
        \A i \in 0 .. N - 1 : hide[i] => DoubleClickPost(G, i)

\* C3 as amended: the same, for clicks made while finished, advancing and
\* pending_hide are unset and no other tile is marked.
C3_DoubleClickOnUnmarkedBoard ==
    last.op # "boot" =>
        \A i \in 0 .. N - 1 :
            (/\ hide[i]
             /\ ~state.finished /\ ~state.advancing
             /\ state.pending_hide = <<>>
             /\ state.mark \in {None, i})
            => DoubleClickPost(G, i)

\* two accepted clicks, nothing revealed, nothing pending, a tile marked:
\* the second click repeated the first
C3_Witness ==
    /\ last = [op |-> "tap", acc |-> TRUE]
    /\ move_count = 2
    /\ state.mark # None
    /\ Revealed(G) = {}
    /\ state.pending_hide = <<>>
    /\ timers.hide_pending = <<>>

C4_AfterMismatch ==
    \A p \in Points(G) :
        Mismatching(G, p[1], p[2]) =>
            LET g1 == tap(G, p[1], p[2])
            IN  /\ g1.state.pending_hide = <<state.mark, TileAt(G, p[1], p[2])>>
                /\ g1.state.mark = None
                /\ g1.timers.hide_pending = <<g1.state.pending_hide>>

C4_NoClickWhilePending ==
    state.pending_hide # <<>> =>
        /\ timers.hide_pending = <<state.pending_hide>>
        /\ \A p \in Points(G) : tap(G, p[1], p[2]) = G

C4_AfterTimer ==
    /\ (last'.op = "hide_pending" /\ state.pending_hide # <<>>) =>
           /\ hide'[state.pending_hide[1]]
           /\ hide'[state.pending_hide[2]]
           /\ state'.mark = None
           /\ state'.pending_hide = <<>>
           /\ timers'.hide_pending = <<>>
    /\ (state.pending_hide # <<>> /\ state'.pending_hide # state.pending_hide)
           => last'.op = "hide_pending"

\* C4: a mismatching second click leaves pending_hide holding the pair and
\* mark clear; no click is accepted until the mismatch-hide timer fires; the
\* timer does fire, and right after it both tiles are hidden and mark and
\* pending_hide are clear.
C4_MismatchHidesAfterTimer ==
    /\ [](last.op # "boot" => C4_AfterMismatch /\ C4_NoClickWhilePending)
    /\ [][C4_AfterTimer]_vars
    /\ (state.pending_hide # <<>> ~>
            (last.op = "hide_pending" /\ state.pending_hide = <<>>))

\* the timer of a mismatch has just fired: the pair is covered again
C4_Witness ==
    /\ last.op = "hide_pending"
    /\ move_count = 2
    /\ state.pending_hide = <<>>
    /\ state.mark = None
    /\ Revealed(G) = {}
    /\ timers.hide_pending = <<>>

\* entry k of the ledger describes level k
EntryOfLevel(e, k) ==
    /\ e.level = k
    /\ e.cols = LEVELS[k][1]
    /\ e.rows = LEVELS[k][2]

\* the levels found complete so far: those left behind, and the current one
\* once a render tick has recorded it
LevelsCompleted ==
    IF state.finished THEN level_idx
    ELSE level_idx + (IF state.recorded THEN 1 ELSE 0)

C5_LedgerShape ==
    /\ Len(level_results) = LevelsCompleted
    /\ \A k \in 1 .. Len(level_results) : EntryOfLevel(level_results[k], k)
    /\ state.recorded => all_revealed(G)
    /\ (last.op = "draw" /\ all_revealed(G) /\ state.pending_hide = <<>>)
           => state.recorded
    /\ state.finished => Len(level_results) = LenLevels

C5_AppendOnly ==
    /\ Len(level_results') >= Len(level_results)
    /\ SubSeq(level_results', 1, Len(level_results)) = level_results

\* C5: the ledger holds exactly one entry per completed level, in level
\* order, however many render ticks run on the fully revealed board; entries
\* are never changed or removed; once finished it has len(LEVELS) entries.
C5_OneEntryPerLevel ==
    /\ [](last.op # "boot" => C5_LedgerShape)
    /\ [][C5_AppendOnly]_vars

\* the session is over, every level recorded once
C5_Witness ==
    /\ state.finished
    /\ LenLevels >= 2
    /\ Len(level_results) = LenLevels
    /\ level_results[1].moves = 6
    /\ level_results[2].moves = 12

\* C6: mark and pending_hide are never both set.
C6_MarkOrPendingNotBoth ==
    ~(state.mark # None /\ state.pending_hide # <<>>)

\* a mismatching second click has just set pending_hide and cleared mark
C6_Witness ==
    /\ last = [op |-> "tap", acc |-> TRUE]
    /\ state.pending_hide # <<>>
    /\ state.mark = None
    /\ move_count = 2

\* C7: the moves of a level's ledger entry is the number of clicks accepted
\* during that level: move_count is 0 when the level starts, counts the
\* accepted clicks, and no click is accepted once the board is fully
\* revealed, so it stands still until the level advances.
C7_MovesAreAcceptedClicks ==
    last.op # "boot" =>
        /\ Len(clicks) = (IF state.finished THEN level_idx ELSE level_idx + 1)
        /\ move_count = clicks[Len(clicks)]
        /\ \A k \in 1 .. Len(level_results) :
               level_results[k].moves = clicks[k]
        /\ (last.op = "advance_after_delay" /\ ~state.finished)
               => move_count = 0
        /\ all_revealed(G) => \A p \in Points(G) : tap(G, p[1], p[2]) = G

\* the second level is recorded with its own clicks, a mismatch among them
C7_Witness ==
    /\ Len(level_results) = 2
    /\ level_results[1].moves = 5
    /\ level_results[2].moves = 14
    /\ clicks = <<5, 14>>

\* what a render tick leaves alone in every case
DrawKeeps ==
    /\ hide' = hide
    /\ tiles' = tiles
    /\ state'.mark = state.mark
    /\ state'.pending_hide = state.pending_hide
    /\ state'.finished = state.finished
    /\ move_count' = move_count
    /\ level_idx' = level_idx

\* C8 as stated: a render tick changes no game state at all.
C8_Original ==
    [][last'.op = "draw" =>
          /\ DrawKeeps
          /\ state' = state
          /\ level_results' = level_results]_vars

\* C8 as amended: a render tick changes none of the hide flags, tile values,
\* mark, pending_hide, finished, move_count or the level index; on a fully
\* revealed board with no pending mismatch (and not finished) it sets
\* recorded and advancing and, if the level was not recorded yet, appends
\* its entry to the ledger; in every other state it changes nothing.
C8_DrawOnlyCompletesLevel ==
    [][last'.op = "draw" =>
          /\ DrawKeeps
          /\ IF all_revealed(G) /\ state.pending_hide = <<>> /\ ~state.finished
             THEN /\ state'.recorded /\ state'.advancing
                  /\ level_results' =
                        IF state.recorded THEN level_results
                        ELSE Append(level_results,
                                    [level |-> level_idx + 1, cols |-> COLS,
                                     rows |-> ROWS, moves |-> move_count])
             ELSE state' = state /\ level_results' = level_results]_vars

\* a render tick has just recorded the first level and begun the pause
C8_Witness ==
    /\ last.op = "draw"
    /\ state.recorded /\ state.advancing
    /\ level_idx = 0
    /\ Len(level_results) = 1
    /\ timers.advance_after_delay = 1

\* C9: for every level the tile count is even, tiles has cols*rows values
\* with each symbol 0 .. cols*rows/2 - 1 exactly twice, hide has cols*rows
\* flags, and right after the level starts every flag is true.
C9_BoardWellFormed ==
    /\ N = COLS * ROWS
    /\ N % 2 = 0
    /\ DOMAIN tiles = 0 .. N - 1
    /\ \A i \in DOMAIN tiles : tiles[i] \in 0 .. (N \div 2) - 1
    /\ \A v \in 0 .. (N \div 2) - 1 :
           Cardinality({i \in DOMAIN tiles : tiles[i] = v}) = 2
    /\ DOMAIN hide = 0 .. N - 1
    /\ last.op = "setup_level" => \A i \in DOMAIN hide : hide[i]

\* the last level of the table has just been set up
C9_Witness ==
    /\ last.op = "setup_level"
    /\ level_idx = Len(LEVELS) - 1
    /\ N = 100
    /\ tiles[1] = 2
    /\ \A i \in DOMAIN hide : hide[i]

\* C10: for every level and every valid tile index i, index_from_xy of the
\* point xy_from_index(i) is i.
C10_RoundTrip ==
    /\ last.op # "boot" =>
           \A i \in 0 .. N - 1 :
               index_from_xy(G, xy_from_index(G, i)[1], xy_from_index(G, i)[2]) = i
    /\ probe # <<>> => probe[3] = probe[1]

\* the last tile of the 3 x 4 board has been mapped to its point and back
C10_Witness ==
    /\ probe # <<>>
    /\ COLS = 3 /\ ROWS = 4
    /\ probe[1] = 11
    /\ probe[2] = <<75, 150>>
    /\ probe[3] = 11

\* the state a level starts in, the ledger kept
FreshLevel ==
    /\ \A i \in DOMAIN hide' : hide'[i]
    /\ DOMAIN hide' = 0 .. LEVELS[level_idx + 2][1] * LEVELS[level_idx + 2][2] - 1
    /\ state' = [mark |-> None, pending_hide |-> <<>>, advancing |-> FALSE,
                 finished |-> FALSE, recorded |-> FALSE]
    /\ move_count' = 0
    /\ level_results' = level_results

\* C11: when the level-advance timer fires the level index grows by exactly
\* 1; if a level remains there the state is that of a fresh level (all hide
\* flags true, mark and pending_hide clear, advancing, recorded and finished
\* false, move_count 0, ledger unchanged); otherwise finished becomes true and
\* the board and the ledger are unchanged.
C11_AdvanceStartsLevelOrFinishes ==
    [][last'.op = "advance_after_delay" =>
          /\ level_idx' = level_idx + 1
          /\ IF level_idx + 1 < LenLevels
             THEN FreshLevel
             ELSE /\ state'.finished
                  /\ hide' = hide
                  /\ tiles' = tiles
                  /\ level_results' = level_results]_vars

\* the timer has just taken the session from the first level to the second
C11_Witness ==
    /\ last.op = "advance_after_delay"
    /\ level_idx = 1
    /\ N = 12
    /\ \A i \in DOMAIN hide : hide[i]
    /\ move_count = 0
    /\ Len(level_results) = 1
    /\ ~state.recorded /\ ~state.advancing /\ ~state.finished

\* C12: at most one level-advance timer is outstanding, and exactly one is
\* scheduled per completed level however many ticks run on the complete
\* board: the timers fired (one per step of level_idx) and the one
\* outstanding add up to the levels recorded, and level_idx moves only when
\* such a timer fires.
C12_OneAdvanceTimerPerLevel ==
    /\ [](/\ timers.advance_after_delay <= 1
          /\ level_idx + timers.advance_after_delay = Len(level_results))
    /\ [][level_idx' # level_idx =>
             /\ last'.op = "advance_after_delay"
             /\ timers.advance_after_delay = 1
             /\ timers'.advance_after_delay = 0
             /\ level_idx' = level_idx + 1]_vars

\* a tick on the complete second board, its single timer outstanding
C12_Witness ==
    /\ last.op = "draw"
    /\ level_idx = 1
    /\ all_revealed(G)
    /\ timers.advance_after_delay = 1
    /\ Len(level_results) = 2

\* C13 as stated: advancing is true exactly when a level-advance timer is
\* scheduled and has not fired yet.
C13_AdvancingIffTimerOutstanding ==
    state.advancing <=> timers.advance_after_delay > 0

C14_TimerMatchesPending ==
    /\ Len(timers.hide_pending) <= 1
    /\ (timers.hide_pending # <<>>) <=> (state.pending_hide # <<>>)
    /\ (state.pending_hide # <<>>) =>
           (timers.hide_pending = <<state.pending_hide>>)
    /\ (timers.hide_pending # <<>>) => (timers.advance_after_delay = 0)
    /\ (timers.hide_pending # <<>>) =>
           \A p, q \in Points(G) :
               LET g2 == tap(tap(G, p[1], p[2]), q[1], q[2])
               IN  /\ g2.state.pending_hide = state.pending_hide
                   /\ g2.timers.hide_pending = timers.hide_pending

C14_WhileOutstanding ==
    /\ (last'.op = "hide_pending") =>
           (/\ state.pending_hide # <<>>
            /\ timers.hide_pending = <<state.pending_hide>>)
    /\ (timers.hide_pending # <<>>) =>
           (/\ level_idx' = level_idx
            /\ state'.pending_hide \in {<<>>, state.pending_hide})

\* C14: at most one mismatch-hide timer is outstanding, and one is
\* outstanding exactly when pending_hide is set; it was scheduled by the
\* pair pending_hide holds, so it never fires on a clear pending_hide or on
\* another pair; no second pair comes up before it fires and no level
\* changes while it is outstanding.
C14_OneHideTimerPerMismatch ==
    /\ []C14_TimerMatchesPending
    /\ [][C14_WhileOutstanding]_vars

\* a mismatch is pending on the second board, its timer outstanding
C14_Witness ==
    /\ level_idx = 1
    /\ Revealed(G) # {}
    /\ state.pending_hide # <<>>
    /\ timers.hide_pending = <<state.pending_hide>>
    /\ last.op = "draw"

\* C15: advancing implies that every tile is revealed, that mark and
\* pending_hide are clear and that the level's result is recorded.
C15_AdvancingMeansComplete ==
    state.advancing =>
        /\ all_revealed(G)
        /\ state.mark = None
        /\ state.pending_hide = <<>>
        /\ state.recorded

\* a click during the pause after the first level, ignored
C15_Witness ==
    /\ state.advancing
    /\ ~state.finished
    /\ level_idx = 0
    /\ last = [op |-> "tap", acc |-> FALSE]
    /\ timers.advance_after_delay = 1

\* the board of level k (counted from 0) stands complete, nothing pending
LevelComplete(k) ==
    /\ level_idx = k
    /\ ~state.finished
    /\ all_revealed(G)
    /\ state.pending_hide = <<>>

\* the level after level k has just started, or level k was the last and
\* the session is finished
LevelLeft(k) ==
    IF k + 1 < LenLevels
    THEN /\ level_idx = k + 1
         /\ last.op = "advance_after_delay"
         /\ \A i \in DOMAIN hide : hide[i]
         /\ move_count = 0
    ELSE state.finished

\* C16: with render ticks and timers scheduled fairly, whenever the board
\* stands fully revealed with no pending mismatch, eventually the next level
\* has started (fresh board, level index one higher) or, on the last level,
\* finished is true.
C16_CompleteLevelIsLeft ==
    \A k \in 0 .. LenLevels - 1 : LevelComplete(k) ~> LevelLeft(k)

\* the timer of the last level has just ended the session
C16_Witness ==
    /\ state.finished
    /\ last.op = "advance_after_delay"
    /\ level_idx = LenLevels
    /\ all_revealed(G)

C17_FinishedStays ==
    state.finished =>
        /\ state'.finished
        /\ hide' = hide
        /\ tiles' = tiles
        /\ state'.mark = state.mark
        /\ state'.pending_hide = state.pending_hide
        /\ move_count' = move_count
        /\ level_results' = level_results
        /\ level_idx' = level_idx

\* C17: finished is terminal: once true it stays true, no mismatch-hide or
\* level-advance timer is outstanding, and no later click or render tick
\* changes the board, mark, pending_hide, move_count, the ledger or the
\* level index.
C17_FinishedIsTerminal ==
    /\ [](state.finished =>
             /\ timers.hide_pending = <<>>
             /\ timers.advance_after_delay = 0)
    /\ [][C17_FinishedStays]_vars

\* a click after the final report has been drawn, ignored
C17_Witness ==
    /\ state.finished
    /\ last = [op |-> "tap", acc |-> FALSE]
    /\ timers.draw = 0

\* draw reaches the read of LEVELS[level_idx] in record_level_if_needed
ReadsLevelTable(g) ==
    /\ ~g.state.finished
    /\ all_revealed(g)
    /\ g.state.pending_hide = <<>>
    /\ ~g.state.recorded

\* C18: the level table is never indexed out of range: level_idx is below
\* len(LEVELS) whenever a level has been set up and the session is not
\* finished, so whenever record_level_if_needed reads the table, and it
\* equals len(LEVELS) exactly when finished is true.
C18_LevelIndexInRange ==
    /\ 0 <= level_idx /\ level_idx <= LenLevels
    /\ state.finished <=> (level_idx = LenLevels)
    /\ ReadsLevelTable(G) => level_idx < LenLevels
    /\ (~state.finished) =>
           (/\ level_idx < LenLevels
            /\ COLS = LEVELS[level_idx + 1][1]
            /\ ROWS = LEVELS[level_idx + 1][2])

\* the final report has been drawn with the index one past the table
C18_Witness ==
    /\ state.finished
    /\ level_idx = LenLevels
    /\ last.op = "draw"
    /\ timers.draw = 0

C19_PairsOnly ==
    /\ \A i, j \in DOMAIN tiles :
           (tiles[i] = tiles[j] /\ ~hide[i]) => ~hide[j]
    /\ (state.mark # None) => hide[state.mark]
    /\ (state.pending_hide # <<>>) =>
           (/\ hide[state.pending_hide[1]]
            /\ hide[state.pending_hide[2]]
            /\ state.pending_hide[1] # state.pending_hide[2]
            /\ tiles[state.pending_hide[1]] # tiles[state.pending_hide[2]])

C19_RevealedByMatch ==
    (\E i \in DOMAIN hide : i \in DOMAIN hide' /\ hide[i] /\ ~hide'[i]) =>
        (/\ last' = [op |-> "tap", acc |-> TRUE]
         /\ state.mark # None
         /\ state'.mark = None
         /\ state'.pending_hide = <<>>
         /\ \E j \in DOMAIN hide :
                /\ j # state.mark
                /\ tiles[j] = tiles[state.mark]
                /\ hide' = [hide EXCEPT ![j] = FALSE, ![state.mark] = FALSE])

\* C19: tiles are revealed only by a matching second click and only as
\* pairs: every revealed tile's same-valued partner is revealed too, the
\* marked tile is hidden, and the two tiles of pending_hide are hidden,
\* distinct and of different values.
C19_RevealedOnlyAsPairs ==
    /\ [](last.op # "boot" => C19_PairsOnly)
    /\ [][C19_RevealedByMatch]_vars

\* on the second board: one pair revealed, then a mismatch pending
C19_Witness ==
    /\ level_idx = 1
    /\ Cardinality(Revealed(G)) = 2
    /\ state.pending_hide # <<>>
    /\ state.mark = None
    /\ last = [op |-> "tap", acc |-> TRUE]

\* C20: every ledger entry's moves is at least the tile count of its level,
\* and a level completed with no mismatch and no repeated click is recorded
\* with exactly cols*rows moves (4 for the 2 x 2 level).
C20_MovesAtLeastTiles ==
    last.op # "boot" =>
        /\ \A k \in 1 .. Len(level_results) :
               /\ level_results[k].moves
                     >= level_results[k].cols * level_results[k].rows
               /\ level_results[k].cols * level_results[k].rows
                     = LEVELS[k][1] * LEVELS[k][2]
        /\ (state.recorded /\ clean) =>
               level_results[Len(level_results)].moves = COLS * ROWS
        /\ (state.recorded /\ ~clean) =>
               level_results[Len(level_results)].moves > COLS * ROWS

\* both levels recorded after flawless play
C20_Witness ==
    /\ Len(level_results) = 2
    /\ level_results[1] = [level |-> 1, cols |-> 2, rows |-> 2, moves |-> 4]
    /\ level_results[2].moves = 12
    /\ clean
    /\ state.recorded

====
